---- MODULE Spec2Model ----
(***************************************************************************)
(* Poll resolution engine of the meeting scheduler: the polls collection,  *)
(* PollService.create_poll / add_vote / finalize_poll and the sweep of     *)
(* PollService.finalize_expired_polls (src/backend/app/services.py).       *)
(*                                                                         *)
(* Every service method is a coroutine that awaits the store twice: once   *)
(* for find_one (get_poll) and once for update_one.  Each await is a point *)
(* where other coroutines run, so a method is two atomic steps: the read   *)
(* together with the synchronous computation that follows it, and the      *)
(* write of the whole computed document ($set of poll.model_dump()).       *)
(*                                                                         *)
(* Further components, each with a specification of its own over the same  *)
(* variables (src/backend/main.py): the poll endpoints with                *)
(* _apply_poll_outcome and PollAutoFinalizer (SpecOutcome, FairOutcome),   *)
(* the poll tokens and _resolve_voter_identity (SpecTokens), and the       *)
(* interval functions _merge_intervals and _generate_suggestions           *)
(* (SpecMerge, SpecSuggest, SpecFreeCalendar), the ordering of suggestions *)
(* (SpecPrioritize), the handler suggest_availability                      *)
(* (SpecSuggestAvailability), and the auto-finalizer with store errors and *)
(* the two steps of stop() (SpecLoop, FairLoop).                           *)
(***************************************************************************)
EXTENDS Integers, Sequences, FiniteSets, TLC

\* ------------------------------------------------------------------ bounds
\* Requests (add_vote / finalize_poll calls) started in one behaviour.
MaxCalls == 2
\* Intervals in one list of busy blocks.
MaxIntervals == 3
\* Store operations of the auto-finalizer that fail in one behaviour.
MaxFaults == 2

\* ------------------------------------------------------------ value domains
\* Python's None for Optional[str] / Optional[datetime] fields; option ids and
\* deadlines of the model are positive.
None == 0

\* One poll: every operation modelled here reads and writes a single poll
\* document, and documents of different polls share nothing.
PollIds == {1}
\* Two request coroutines can be in flight next to the sweep.
Slots == {1, 2}
\* A create request carries two options, each starting at one of two instants.
OptionIndexes == {1, 2}
StartTimes == {1, 2}
\* A poll has no deadline or the deadline 1.  The code compares the clock with
\* nothing but a deadline, so two instants tell all: 0 is before the deadline,
\* 1 is the deadline or later.
Deadlines == {None, 1}
Times == {0, 1}

\* Addresses as callers may spell them; two spellings of one mailbox.
Emails == {"ann@x.io", "Ann@X.io", "bob@x.io"}

\* str.lower() on the addresses above.
Lower(e) == IF e = "Ann@X.io" THEN "ann@x.io" ELSE e

\* PollOption.id is a fresh uuid4: unique over all polls.  The i-th option of
\* the n-th poll gets the id below; one more id belongs to no option.
NewOptionId(n, i) == (n - 1) * Cardinality(OptionIndexes) + i
UnknownOptionId == Cardinality(PollIds) * Cardinality(OptionIndexes) + 1
OptionIdArgs == 1..UnknownOptionId

\* The option lists of a create request: {start_time, end_time} pairs.
RequestOption(s) == [start_time |-> s, end_time |-> s + 1]
RequestOptionLists == [OptionIndexes -> {RequestOption(s) : s \in StartTimes}]

\* ---------------------------------------------------------------- state
VARIABLES
    polls,      \* the polls collection: _id -> stored document
    calls,      \* request coroutines in flight, one per slot
    started,    \* number of add_vote / finalize_poll calls started so far
    now,        \* datetime.now(timezone.utc)
    sweeper,    \* the coroutine running finalize_expired_polls
    meeting,    \* the meeting document the poll belongs to
    handlers,   \* HTTP requests to the poll endpoints, one per request id
    finalizer,  \* the task running PollAutoFinalizer._run
    clock,      \* the wall clock of the token functions, in ticks
    issued,     \* the poll tokens generate_poll_token has returned
    resolved,   \* the last call of _resolve_voter_identity and its outcome
    eval,       \* one call of a suggestion function: arguments and result
    faults,     \* store operations of the auto-finalizer that have failed
    log,        \* what the auto-finalizer has written to logger.error
    stopping    \* PollAutoFinalizer.stop(): "idle", or "awaiting" the task

outcome_vars == <<meeting, handlers, finalizer>>
auth_vars == <<clock, issued, resolved>>
loop_vars == <<faults, log, stopping>>
vars == <<polls, calls, started, now, sweeper, outcome_vars, auth_vars, eval,
          loop_vars>>

\* ------------------------------------------------------- pure computations
\* PollOption(**opt).model_dump(): generated id, votes defaulting to 0.
NewOptions(n, opts) ==
    [i \in DOMAIN opts |->
        [id |-> NewOptionId(n, i),
         start_time |-> opts[i].start_time,
         end_time |-> opts[i].end_time,
         votes |-> 0]]

\* The document create_poll inserts.
NewPollDoc(n, opts, deadline) ==
    [options |-> NewOptions(n, opts),
     votes |-> <<>>,
     status |-> "open",
     deadline |-> deadline,
     winning_option_id |-> None]

\* [vote for vote in poll.votes if vote.voter_email.lower() != voter_email.lower()]
\* (OtherVotesCaseSensitive: the same filter without the two lower() calls.)
OtherVotesCaseSensitive(votes, voter_email) ==
    SelectSeq(votes, LAMBDA v : v.voter_email # voter_email)
OtherVotes(votes, voter_email) ==
    SelectSeq(votes, LAMBDA v : Lower(v.voter_email) # Lower(voter_email))

\* vote_counts.get(option.id, 0) after the counting loop over poll.votes.
VoteCount(votes, id) ==
    Len(SelectSeq(votes, LAMBDA v : v.option_id = id))

\* for option in poll.options: option.votes = vote_counts.get(option.id, 0)
Recount(options, votes) ==
    [i \in DOMAIN options |->
        [options[i] EXCEPT !.votes = VoteCount(votes, options[i].id)]]

\* The document add_vote computes from the one it read.
WithVote(poll, option_id, voter_email) ==
    LET votes == Append(OtherVotes(poll.votes, voter_email),
                        [option_id |-> option_id, voter_email |-> voter_email])
    IN [poll EXCEPT !.votes = votes, !.options = Recount(poll.options, votes)]

\* normalized_deadline and datetime.now(timezone.utc) >= normalized_deadline
\* (DeadlinePassedStrict: the same test with > for >=.)
DeadlinePassedStrict(deadline, t) == deadline # None /\ t > deadline
DeadlinePassed(deadline, t) == deadline # None /\ t >= deadline

\* The checks of add_vote on the document it read, in the order of the code:
\* the exception raised, or "ok".
\* (AddVoteCheckDeadlineOnly: the same checks without the one on the status.)
AddVoteCheckDeadlineOnly(poll, t) ==
    IF DeadlinePassed(poll.deadline, t)
    THEN "ValueError: Poll deadline has passed"
    ELSE "ok"
AddVoteCheck(poll, t) ==
    IF poll.status # "open" THEN "ValueError: Poll is closed"
    ELSE IF DeadlinePassed(poll.deadline, t)
    THEN "ValueError: Poll deadline has passed"
    ELSE "ok"

\* sorted(poll.options, key=lambda opt: (-opt.votes, opt.start_time))[0]:
\* sorted() is stable, so among equal keys the first in list order comes first.
\* (KeyBeforeLatestStart: the key (-opt.votes, -opt.start_time).)
KeyBeforeLatestStart(a, b) ==
    \/ a.votes > b.votes
    \/ a.votes = b.votes /\ a.start_time > b.start_time
KeyBefore(a, b) ==
    \/ a.votes > b.votes
    \/ a.votes = b.votes /\ a.start_time < b.start_time
KeyEqual(a, b) == a.votes = b.votes /\ a.start_time = b.start_time
FirstSorted(options) ==
    CHOOSE i \in DOMAIN options :
        \A j \in DOMAIN options :
            \/ j = i
            \/ KeyBefore(options[i], options[j])
            \/ KeyEqual(options[i], options[j]) /\ i < j

\* The winner finalize_poll records: the explicit option_id, else the first of
\* the sorted options.
ChosenOption(poll, option_id) ==
    IF option_id = None THEN poll.options[FirstSorted(poll.options)].id
    ELSE option_id

\* finalize_poll's early return: if poll.status == "closed": return poll
\* (AlreadyClosedUnlessExplicit: an early return taken only when no option_id
\* is passed.)
AlreadyClosedUnlessExplicit(poll, option_id) ==
    poll.status = "closed" /\ option_id = None
AlreadyClosed(poll, option_id) == poll.status = "closed"

\* The document finalize_poll computes from the one it read.
\* (ClosedStatusOnly: the same document without the winning_option_id.
\* ClosedWinnerOnly: the same document without the status.)
ClosedStatusOnly(poll, option_id) == [poll EXCEPT !.status = "closed"]
ClosedWinnerOnly(poll, option_id) ==
    [poll EXCEPT !.winning_option_id = ChosenOption(poll, option_id)]
Closed(poll, option_id) ==
    [poll EXCEPT !.status = "closed",
                 !.winning_option_id = ChosenOption(poll, option_id)]

\* find(query) of finalize_expired_polls, in _id order.
RECURSIVE ExpiredFrom(_, _, _)
ExpiredFrom(store, t, n) ==
    IF n > Len(store) THEN <<>>
    ELSE IF /\ store[n].status = "open"
            /\ store[n].deadline # None
            /\ store[n].deadline <= t
         THEN <<n>> \o ExpiredFrom(store, t, n + 1)
         ELSE ExpiredFrom(store, t, n + 1)
\* (ExpiredOpenPollsAnyDeadline: the query {"status": "open"} alone.)
ExpiredOpenPollsAnyDeadline(store, t) ==
    SelectSeq([n \in DOMAIN store |-> n], LAMBDA n : store[n].status = "open")
ExpiredOpenPolls(store, t) == ExpiredFrom(store, t, 1)

\* ------------------------------------------------------------ coroutines
\* A request coroutine: its position, the method it runs, its arguments while
\* it still reads them, the Poll object it holds and what it returned or raised.
NoDoc == [options |-> <<>>, votes |-> <<>>, status |-> "none",
          deadline |-> None, winning_option_id |-> None]

IdleCall == [pc |-> "idle", op |-> "none", poll_id |-> None, option_id |-> None,
             voter_email |-> "", poll |-> NoDoc, result |-> "none"]

\* A method that returns or raises without reaching update_one.
Finished(op, p, poll, result) ==
    [IdleCall EXCEPT !.pc = "done", !.op = op, !.poll_id = p, !.poll = poll,
                     !.result = result]

\* A method suspended in its update_one.
Updating(op, p, option_id, voter_email, poll) ==
    [IdleCall EXCEPT !.pc = "update", !.op = op, !.poll_id = p,
                     !.option_id = option_id, !.voter_email = voter_email,
                     !.poll = poll]

IdleSweeper == [pc |-> "sleep", cursor |-> <<>>, poll_id |-> None,
                poll |-> NoDoc, finalized |-> <<>>]

\* Slots are interchangeable: a new request takes the lowest idle one.
FreeSlot(c) ==
    /\ calls[c].pc = "idle"
    /\ \A d \in Slots : d < c => calls[d].pc # "idle"

\* ---------------------------------------------- meeting, requests, finalizer
\* Logged-in callers of the poll endpoints (current_user.email).
Users == {"ann@x.io", "bob@x.io"}
\* HTTP requests of one behaviour; each id is used once.
Requests == {1, 2}

\* The meeting create_meeting stores when metadata.poll_pending is set: status
\* "polling" and a placeholder time that is no option's.
PendingMeeting ==
    [start_time |-> 0, end_time |-> 1, status |-> "polling",
     poll_pending |-> TRUE]

\* A request that has not arrived yet.
NewHandler == [pc |-> "new", op |-> "none", user |-> "", poll |-> NoDoc,
               result |-> "none"]

\* PollAutoFinalizer after start(): the task is about to run its first sweep.
\* finalized is the list finalize_expired_polls builds and _run walks.
StartedFinalizer == [pc |-> "sleep", cursor |-> <<>>, poll_id |-> None,
                     poll |-> NoDoc, finalized |-> <<>>]

\* ------------------------------------------------------------ poll tokens
\* No token in the request (token=None or "").
NoToken == [kind |-> "none", poll_id |-> None, email |-> "", exp |-> 0,
            signed |-> FALSE]
\* No call of _resolve_voter_identity has been made.
NoResolution ==
    [poll_id |-> None, token |-> NoToken, voter_email_param |-> "",
     current_user |-> "", require_identity |-> FALSE, at |-> 0,
     result |-> "none"]

\* ------------------------------------------------------ interval functions
\* No call of an interval function has been made.
NoEval == [fn |-> "none", args |-> <<>>, done |-> FALSE, result |-> <<>>]

\* The state after startup, for every component but the interval functions.
Started ==
    /\ polls = <<>>
    /\ calls = [c \in Slots |-> IdleCall]
    /\ started = 0
    /\ now = 0
    /\ sweeper = IdleSweeper
    /\ meeting = PendingMeeting
    /\ handlers = [r \in Requests |-> NewHandler]
    /\ finalizer = StartedFinalizer
    /\ clock = 0
    /\ issued = {}
    /\ resolved = NoResolution
    /\ faults = 0
    /\ log = <<>>
    /\ stopping = "idle"

\* The state after startup.
Init == Started /\ eval = NoEval

\* create_poll: one insert_one of a fresh open document.
CreatePoll(opts, deadline) ==
    /\ Len(polls) + 1 \in PollIds
    /\ polls' = Append(polls, NewPollDoc(Len(polls) + 1, opts, deadline))
    /\ UNCHANGED <<calls, started, now, sweeper>>
    /\ UNCHANGED <<outcome_vars, auth_vars, eval, loop_vars>>

\* add_vote up to its update_one: get_poll, the status and deadline checks,
\* and the new document.
AddVoteGet(c, p, option_id, voter_email) ==
    /\ FreeSlot(c)
    /\ started < MaxCalls
    /\ started' = started + 1
    /\ calls' = [calls EXCEPT ![c] =
          IF p \notin DOMAIN polls
          THEN Finished("add_vote", p, NoDoc, "None")
          ELSE IF AddVoteCheck(polls[p], now) # "ok"
          THEN Finished("add_vote", p, NoDoc, AddVoteCheck(polls[p], now))
          ELSE Updating("add_vote", p, option_id, voter_email,
                        WithVote(polls[p], option_id, voter_email))]
    /\ UNCHANGED <<polls, now, sweeper>>
    /\ UNCHANGED <<outcome_vars, auth_vars, eval, loop_vars>>

\* add_vote's update_one: $set of every field of the computed document.
AddVoteUpdate(c) ==
    /\ calls[c].pc = "update"
    /\ calls[c].op = "add_vote"
    /\ polls' = [polls EXCEPT ![calls[c].poll_id] = calls[c].poll]
    /\ calls' = [calls EXCEPT ![c] =
          Finished("add_vote", calls[c].poll_id, calls[c].poll, "poll")]
    /\ UNCHANGED <<started, now, sweeper>>
    /\ UNCHANGED <<outcome_vars, auth_vars, eval, loop_vars>>

\* finalize_poll up to its update_one.
FinalizeGet(c, p, option_id) ==
    /\ FreeSlot(c)
    /\ started < MaxCalls
    /\ started' = started + 1
    /\ calls' = [calls EXCEPT ![c] =
          IF p \notin DOMAIN polls
          THEN Finished("finalize_poll", p, NoDoc, "None")
          ELSE IF AlreadyClosed(polls[p], option_id)
          THEN Finished("finalize_poll", p, polls[p], "poll as read")
          ELSE IF option_id = None /\ Len(polls[p].options) = 0
          THEN Finished("finalize_poll", p, NoDoc,
                        "ValueError: No options to finalize")
          ELSE Updating("finalize_poll", p, option_id, "",
                        Closed(polls[p], option_id))]
    /\ UNCHANGED <<polls, now, sweeper>>
    /\ UNCHANGED <<outcome_vars, auth_vars, eval, loop_vars>>

\* finalize_poll's update_one.
FinalizeUpdate(c) ==
    /\ calls[c].pc = "update"
    /\ calls[c].op = "finalize_poll"
    /\ polls' = [polls EXCEPT ![calls[c].poll_id] = calls[c].poll]
    /\ calls' = [calls EXCEPT ![c] =
          Finished("finalize_poll", calls[c].poll_id, calls[c].poll, "poll")]
    /\ UNCHANGED <<started, now, sweeper>>
    /\ UNCHANGED <<outcome_vars, auth_vars, eval, loop_vars>>

\* The caller takes the result; the slot is free again.
Return(c) ==
    /\ calls[c].pc = "done"
    /\ calls' = [calls EXCEPT ![c] = IdleCall]
    /\ UNCHANGED <<polls, started, now, sweeper>>
    /\ UNCHANGED <<outcome_vars, auth_vars, eval, loop_vars>>

\* finalize_expired_polls: the query for open polls whose deadline has passed.
\* A sweep that finds nothing returns at once and leaves every variable as it
\* was.
SweepFind ==
    /\ sweeper.pc = "sleep"
    /\ ExpiredOpenPolls(polls, now) # <<>>
    /\ sweeper' = [IdleSweeper EXCEPT !.pc = "next",
                                      !.cursor = ExpiredOpenPolls(polls, now)]
    /\ UNCHANGED <<polls, calls, started, now>>
    /\ UNCHANGED <<outcome_vars, auth_vars, eval, loop_vars>>

\* The sweep's finalize_poll(str(poll.id)) up to its update_one; a poll that
\* another finalize closed meanwhile is returned as read and joins finalized.
SweepFinalizeGet ==
    /\ sweeper.pc = "next"
    /\ sweeper.cursor # <<>>
    /\ LET p == Head(sweeper.cursor)
           rest == Tail(sweeper.cursor)
       IN IF AlreadyClosed(polls[p], None)
          THEN sweeper' = [sweeper EXCEPT !.cursor = rest,
                               !.finalized = Append(@, p)]
          ELSE sweeper' = [sweeper EXCEPT !.pc = "update", !.cursor = rest,
                               !.poll_id = p,
                               !.poll = Closed(polls[p], None)]
    /\ UNCHANGED <<polls, calls, started, now>>
    /\ UNCHANGED <<outcome_vars, auth_vars, eval, loop_vars>>

\* The sweep's update_one.
SweepFinalizeUpdate ==
    /\ sweeper.pc = "update"
    /\ polls' = [polls EXCEPT ![sweeper.poll_id] = sweeper.poll]
    /\ sweeper' = [sweeper EXCEPT !.pc = "next", !.poll_id = None,
                                  !.poll = NoDoc,
                                  !.finalized = Append(@, sweeper.poll_id)]
    /\ UNCHANGED <<calls, started, now>>
    /\ UNCHANGED <<outcome_vars, auth_vars, eval, loop_vars>>

\* The cursor is exhausted: the sweep returns and the loop sleeps.
SweepDone ==
    /\ sweeper.pc = "next"
    /\ sweeper.cursor = <<>>
    /\ sweeper' = IdleSweeper
    /\ UNCHANGED <<polls, calls, started, now>>
    /\ UNCHANGED <<outcome_vars, auth_vars, eval, loop_vars>>

\* Time passes.
Tick ==
    /\ now + 1 \in Times
    /\ now' = now + 1
    /\ UNCHANGED <<polls, calls, started, sweeper>>
    /\ UNCHANGED <<outcome_vars, auth_vars, eval, loop_vars>>

Next ==
    \/ \E opts \in RequestOptionLists, d \in Deadlines : CreatePoll(opts, d)
    \/ \E c \in Slots, p \in PollIds, o \in OptionIdArgs, e \in Emails :
           AddVoteGet(c, p, o, e)
    \/ \E c \in Slots : AddVoteUpdate(c)
    \/ \E c \in Slots, p \in PollIds, o \in OptionIdArgs \cup {None} :
           FinalizeGet(c, p, o)
    \/ \E c \in Slots : FinalizeUpdate(c)
    \/ \E c \in Slots : Return(c)
    \/ SweepFind
    \/ SweepFinalizeGet
    \/ SweepFinalizeUpdate
    \/ SweepDone
    \/ Tick

Spec == Init /\ [][Next]_vars

\* ------------------------------------------ poll endpoints and auto-finalizer
\* The handlers create_poll, vote_poll and finalize_poll of main.py and the
\* task PollAutoFinalizer._run, on one meeting and its poll.  A step runs from
\* one suspension in a store write to the next; the reads in between change
\* nothing but the meeting status that get_meeting keeps in line with the
\* clock, and are part of the step.

\* MeetingService._determine_status, for the statuses a polled meeting takes.
DetermineStatus(m, t) ==
    IF m.status = "polling" THEN "polling"
    ELSE IF m.start_time <= t /\ t < m.end_time THEN "running"
    ELSE IF t >= m.end_time THEN "completed"
    ELSE "scheduled"

\* get_meeting: _sync_meeting_status stores the status the clock implies.
Synced(m, t) == [m EXCEPT !.status = DetermineStatus(m, t)]

\* create_poll of main.py passes organizer_email=current_user.email to the
\* service: the stored document with its organizer.
OwnedPollDoc(n, user, opts, deadline) ==
    [organizer_email |-> user] @@ NewPollDoc(n, opts, deadline)

\* next((opt for opt in poll.options if opt.id == poll.winning_option_id), None)
WinningOptions(poll) ==
    {i \in DOMAIN poll.options : poll.options[i].id = poll.winning_option_id}
HasWinningOption(poll) ==
    poll.winning_option_id # None /\ WinningOptions(poll) # {}
WinningOption(poll) ==
    poll.options[CHOOSE i \in WinningOptions(poll) :
                     \A j \in WinningOptions(poll) : i <= j]

\* update_meeting(MeetingUpdate(start_time, end_time, status="scheduled")) and
\* the get_meeting that returns the stored meeting.
Scheduled(m, opt, t) ==
    Synced([m EXCEPT !.start_time = opt.start_time,
                     !.end_time = opt.end_time,
                     !.status = "scheduled"], t)

\* update_meeting_metadata(meta) after meta.pop("poll_pending").
WithoutPollPending(m, t) == Synced([m EXCEPT !.poll_pending = FALSE], t)

\* poll.organizer_email and poll.organizer_email != current_user.email
NotOrganizer(poll, user) ==
    poll.organizer_email # "" /\ poll.organizer_email # user

\* Request ids are interchangeable: a new request takes the lowest unused one.
FreshRequest(r) ==
    /\ handlers[r].pc = "new"
    /\ \A q \in Requests : q < r => handlers[q].pc # "new"

\* A handler that has returned or raised.
Responded(op, user, result) ==
    [NewHandler EXCEPT !.pc = "done", !.op = op, !.user = user,
                       !.result = result]

\* A handler suspended at pc, holding the Poll object poll.
Suspended(pc, op, user, poll) ==
    [NewHandler EXCEPT !.pc = pc, !.op = op, !.user = user, !.poll = poll]

\* finalize_poll of main.py once the service has returned poll: the organizer
\* check, then _apply_poll_outcome.
AfterFinalize(user, poll) ==
    IF NotOrganizer(poll, user)
    THEN Responded("finalize_poll", user,
                   "403: You can only finalize polls you created.")
    ELSE Suspended("apply", "finalize_poll", user, poll)

\* create_poll of main.py: get_meeting, the insert of the service and the
\* update_meeting_metadata that records poll_id.
CreatePollRequest(user, opts, deadline) ==
    /\ Len(polls) + 1 \in PollIds
    /\ polls' = Append(polls, OwnedPollDoc(Len(polls) + 1, user, opts, deadline))
    /\ meeting' = Synced(meeting, now)
    /\ UNCHANGED <<calls, started, now, sweeper, handlers, finalizer>>
    /\ UNCHANGED <<auth_vars, eval, loop_vars>>

\* vote_poll of main.py for a voter _resolve_voter_identity has accepted:
\* get_poll, get_meeting, and add_vote up to its update_one.
VoteRequest(r, p, option_id, voter_email) ==
    /\ FreshRequest(r)
    /\ IF p \notin DOMAIN polls
       THEN /\ handlers' = [handlers EXCEPT ![r] =
                  Responded("vote_poll", voter_email, "404: Poll not found")]
            /\ UNCHANGED meeting
       ELSE /\ meeting' = Synced(meeting, now)
            /\ handlers' = [handlers EXCEPT ![r] =
                  IF AddVoteCheck(polls[p], now) # "ok"
                  THEN Responded("vote_poll", voter_email, "400")
                  ELSE Suspended("update", "vote_poll", voter_email,
                                 WithVote(polls[p], option_id, voter_email))]
    /\ UNCHANGED <<polls, calls, started, now, sweeper, finalizer>>
    /\ UNCHANGED <<auth_vars, eval, loop_vars>>

\* add_vote's update_one inside vote_poll; the handler returns the poll.
VoteRequestUpdate(r, p) ==
    /\ handlers[r].pc = "update"
    /\ handlers[r].op = "vote_poll"
    /\ polls' = [polls EXCEPT ![p] = handlers[r].poll]
    /\ handlers' = [handlers EXCEPT ![r] =
          Responded("vote_poll", handlers[r].user, "200")]
    /\ UNCHANGED <<calls, started, now, sweeper, meeting, finalizer>>
    /\ UNCHANGED <<auth_vars, eval, loop_vars>>

\* finalize_poll of main.py: the service's finalize_poll up to its update_one;
\* when the service returns the closed poll as read, the organizer check.
FinalizeRequest(r, p, user, option_id) ==
    /\ FreshRequest(r)
    /\ handlers' = [handlers EXCEPT ![r] =
          IF p \notin DOMAIN polls
          THEN Responded("finalize_poll", user, "404: Poll not found")
          ELSE IF AlreadyClosed(polls[p], option_id)
          THEN AfterFinalize(user, polls[p])
          ELSE Suspended("update", "finalize_poll", user,
                         Closed(polls[p], option_id))]
    /\ UNCHANGED <<polls, calls, started, now, sweeper, meeting, finalizer>>
    /\ UNCHANGED <<auth_vars, eval, loop_vars>>

\* The service's update_one inside finalize_poll of main.py, and the organizer
\* check that follows it.
FinalizeRequestUpdate(r, p) ==
    /\ handlers[r].pc = "update"
    /\ handlers[r].op = "finalize_poll"
    /\ polls' = [polls EXCEPT ![p] = handlers[r].poll]
    /\ handlers' = [handlers EXCEPT ![r] =
          AfterFinalize(handlers[r].user, handlers[r].poll)]
    /\ UNCHANGED <<calls, started, now, sweeper, meeting, finalizer>>
    /\ UNCHANGED <<auth_vars, eval, loop_vars>>

\* _apply_poll_outcome in a request: get_meeting and the search for the
\* winning option.  Without one the handler returns the poll as it is.
RequestApplyGet(r) ==
    /\ handlers[r].pc = "apply"
    /\ meeting' = Synced(meeting, now)
    /\ handlers' = [handlers EXCEPT ![r] =
          IF HasWinningOption(handlers[r].poll)
          THEN [handlers[r] EXCEPT !.pc = "apply_update"]
          ELSE Responded("finalize_poll", handlers[r].user, "200")]
    /\ UNCHANGED <<polls, calls, started, now, sweeper, finalizer>>
    /\ UNCHANGED <<auth_vars, eval, loop_vars>>

\* _apply_poll_outcome in a request: update_meeting with the winning times.
RequestApplyUpdate(r) ==
    /\ handlers[r].pc = "apply_update"
    /\ meeting' = Scheduled(meeting, WinningOption(handlers[r].poll), now)
    /\ handlers' = [handlers EXCEPT ![r] =
          IF meeting.poll_pending
          THEN [handlers[r] EXCEPT !.pc = "apply_meta"]
          ELSE Responded("finalize_poll", handlers[r].user, "200")]
    /\ UNCHANGED <<polls, calls, started, now, sweeper, finalizer>>
    /\ UNCHANGED <<auth_vars, eval, loop_vars>>

\* _apply_poll_outcome in a request: update_meeting_metadata without
\* poll_pending, the notifications, and the response.
RequestApplyMeta(r) ==
    /\ handlers[r].pc = "apply_meta"
    /\ meeting' = WithoutPollPending(meeting, now)
    /\ handlers' = [handlers EXCEPT ![r] =
          Responded("finalize_poll", handlers[r].user, "200")]
    /\ UNCHANGED <<polls, calls, started, now, sweeper, finalizer>>
    /\ UNCHANGED <<auth_vars, eval, loop_vars>>

\* _run: finalize_expired_polls issues its query.  A sweep that finds nothing
\* returns an empty list and the loop sleeps again, in the same state.
RunFind ==
    /\ finalizer.pc = "sleep"
    /\ ExpiredOpenPolls(polls, now) # <<>>
    /\ finalizer' = [StartedFinalizer EXCEPT
                        !.pc = "next", !.cursor = ExpiredOpenPolls(polls, now)]
    /\ UNCHANGED <<polls, calls, started, now, sweeper, meeting, handlers>>
    /\ UNCHANGED <<auth_vars, eval, loop_vars>>

\* _run: finalize_poll(str(poll.id)) of the sweep up to its update_one; a poll
\* closed meanwhile is returned as read and joins the finalized list.
RunFinalizeGet ==
    /\ finalizer.pc = "next"
    /\ finalizer.cursor # <<>>
    /\ LET p == Head(finalizer.cursor)
           rest == Tail(finalizer.cursor)
       IN finalizer' =
              IF AlreadyClosed(polls[p], None)
              THEN [finalizer EXCEPT !.cursor = rest,
                                     !.finalized = Append(@, polls[p])]
              ELSE [finalizer EXCEPT !.pc = "update", !.cursor = rest,
                                     !.poll_id = p,
                                     !.poll = Closed(polls[p], None)]
    /\ UNCHANGED <<polls, calls, started, now, sweeper, meeting, handlers>>
    /\ UNCHANGED <<auth_vars, eval, loop_vars>>

\* _run: the update_one of the sweep's finalize_poll.
RunFinalizeUpdate ==
    /\ finalizer.pc = "update"
    /\ polls' = [polls EXCEPT ![finalizer.poll_id] = finalizer.poll]
    /\ finalizer' = [finalizer EXCEPT !.pc = "next", !.poll_id = None,
                                      !.poll = NoDoc,
                                      !.finalized = Append(@, finalizer.poll)]
    /\ UNCHANGED <<calls, started, now, sweeper, meeting, handlers>>
    /\ UNCHANGED <<auth_vars, eval, loop_vars>>

\* _run: the sweep has returned; _apply_poll_outcome of the next finalized
\* poll does its get_meeting and looks for the winning option.
RunApplyGet ==
    /\ finalizer.pc = "next"
    /\ finalizer.cursor = <<>>
    /\ finalizer.finalized # <<>>
    /\ meeting' = Synced(meeting, now)
    /\ finalizer' =
          IF HasWinningOption(Head(finalizer.finalized))
          THEN [finalizer EXCEPT !.pc = "apply_update",
                                 !.poll = Head(finalizer.finalized),
                                 !.finalized = Tail(@)]
          ELSE [finalizer EXCEPT !.finalized = Tail(@)]
    /\ UNCHANGED <<polls, calls, started, now, sweeper, handlers>>
    /\ UNCHANGED <<auth_vars, eval, loop_vars>>

\* _run: update_meeting of _apply_poll_outcome.
RunApplyUpdate ==
    /\ finalizer.pc = "apply_update"
    /\ meeting' = Scheduled(meeting, WinningOption(finalizer.poll), now)
    /\ finalizer' =
          IF meeting.poll_pending
          THEN [finalizer EXCEPT !.pc = "apply_meta"]
          ELSE [finalizer EXCEPT !.pc = "next", !.poll = NoDoc]
    /\ UNCHANGED <<polls, calls, started, now, sweeper, handlers>>
    /\ UNCHANGED <<auth_vars, eval, loop_vars>>

\* _run: update_meeting_metadata of _apply_poll_outcome and the notifications.
RunApplyMeta ==
    /\ finalizer.pc = "apply_meta"
    /\ meeting' = WithoutPollPending(meeting, now)
    /\ finalizer' = [finalizer EXCEPT !.pc = "next", !.poll = NoDoc]
    /\ UNCHANGED <<polls, calls, started, now, sweeper, handlers>>
    /\ UNCHANGED <<auth_vars, eval, loop_vars>>

\* _run: every finalized poll has been handled; asyncio.sleep.
RunSleep ==
    /\ finalizer.pc = "next"
    /\ finalizer.cursor = <<>>
    /\ finalizer.finalized = <<>>
    /\ finalizer' = StartedFinalizer
    /\ UNCHANGED <<polls, calls, started, now, sweeper, meeting, handlers>>
    /\ UNCHANGED <<auth_vars, eval, loop_vars>>

\* stop(): the task is cancelled at the await it is suspended in; CancelledError
\* passes the per-poll handlers and ends the loop.
Stop ==
    /\ finalizer.pc # "stopped"
    /\ finalizer' = [StartedFinalizer EXCEPT !.pc = "stopped"]
    /\ UNCHANGED <<polls, calls, started, now, sweeper, meeting, handlers>>
    /\ UNCHANGED <<auth_vars, eval, loop_vars>>

\* start() after a stop(): a new task, about to run its first sweep.
Start ==
    /\ finalizer.pc = "stopped"
    /\ finalizer' = StartedFinalizer
    /\ UNCHANGED <<polls, calls, started, now, sweeper, meeting, handlers>>
    /\ UNCHANGED <<auth_vars, eval, loop_vars>>

\* A step of a request that has been accepted.
RequestStep(r) ==
    \/ \E p \in PollIds : VoteRequestUpdate(r, p)
    \/ \E p \in PollIds : FinalizeRequestUpdate(r, p)
    \/ RequestApplyGet(r)
    \/ RequestApplyUpdate(r)
    \/ RequestApplyMeta(r)

\* A step of the running auto-finalizer task.
RunStep ==
    \/ RunFind
    \/ RunFinalizeGet
    \/ RunFinalizeUpdate
    \/ RunApplyGet
    \/ RunApplyUpdate
    \/ RunApplyMeta
    \/ RunSleep

NextOutcome ==
    \/ \E u \in Users, opts \in RequestOptionLists, d \in Deadlines :
           CreatePollRequest(u, opts, d)
    \/ \E r \in Requests, p \in PollIds, o \in OptionIdArgs, u \in Users :
           VoteRequest(r, p, o, u)
    \/ \E r \in Requests, p \in PollIds, u \in Users,
          o \in OptionIdArgs \cup {None} : FinalizeRequest(r, p, u, o)
    \/ \E r \in Requests : RequestStep(r)
    \/ RunStep
    \/ Stop
    \/ Start
    \/ Tick

SpecOutcome == Init /\ [][NextOutcome]_vars

\* The event loop runs every task that can run: an accepted request goes on to
\* its response, and the auto-finalizer task goes on until it is stopped.
\* Nothing obliges a new request, the clock, stop() or start() to happen.
FairOutcome ==
    /\ SpecOutcome
    /\ \A r \in Requests : WF_vars(RequestStep(r))
    /\ WF_vars(RunStep)

\* -------------------------------------------------------------- poll tokens
\* generate_poll_token, verify_poll_token and _resolve_voter_identity of
\* main.py.  A datetime is a count of ticks, TicksPerSecond to the second, so
\* that a datetime can fall between two seconds; the exp of a token and the
\* clock of jwt.decode are whole seconds.
TicksPerSecond == 2
POLL_TOKEN_TTL_HOURS == 168
\* timedelta(hours=POLL_TOKEN_TTL_HOURS), in ticks.
TokenTtl == POLL_TOKEN_TTL_HOURS * 3600 * TicksPerSecond

\* The instants at which something happens: around the creation of the poll
\* and around the end of the default lifetime.
Instants == (0..4) \cup {TokenTtl + k : k \in 0..3}
\* Deadlines of a poll: none, between two seconds, on a second, and later than
\* the default lifetime of a token issued early.
TokenDeadlines == {None, 3, 4, TokenTtl + 3}

\* Two polls; tokens are issued for the first.
TokenPollIds == {1, 2}
\* meeting.participants[*].email and poll.organizer_email, as stored.
Participants(p) == {"Ann@X.io"}
Organizer(p) == IF p = 1 THEN "bob@x.io" ELSE "eve@x.io"
\* current_user.email of the request, "" without a login.
CurrentUsers == {"", "Ann@X.io", "bob@x.io", "eve@x.io"}
\* voter_email of the request, "" when absent.
VoterEmailParams == {"", "Ann@X.io"}

\* int(exp.timestamp()): the whole seconds of a datetime.
Timestamp(t) == t \div TicksPerSecond

\* _poll_token_expiration(deadline) called at instant t.
\* (PollTokenExpirationDefault: the default lifetime whatever the deadline.)
PollTokenExpirationDefault(deadline, t) == t + TokenTtl
PollTokenExpiration(deadline, t) ==
    IF deadline = None THEN t + TokenTtl
    ELSE IF t + TokenTtl <= deadline THEN t + TokenTtl
    ELSE deadline

\* generate_poll_token(poll_id, email, deadline) called at instant t: the
\* payload, signed with POLL_TOKEN_SECRET.
GeneratePollToken(poll_id, email, deadline, t) ==
    [kind |-> "jwt", poll_id |-> poll_id, email |-> Lower(email),
     exp |-> Timestamp(PollTokenExpiration(deadline, t)), signed |-> TRUE]

\* A token with a payload of the caller's choice, signed with another key.
ForgedToken ==
    [kind |-> "jwt", poll_id |-> 1, email |-> "ann@x.io",
     exp |-> Timestamp(TokenTtl + TokenTtl), signed |-> FALSE]

\* The legacy token: the HMAC of "poll_id:email.lower()".
LegacyToken(poll_id, email) ==
    [kind |-> "legacy", poll_id |-> poll_id, email |-> Lower(email),
     exp |-> 0, signed |-> TRUE]

\* jwt.decode(token, POLL_TOKEN_SECRET, algorithms=[HS256]) at instant t does
\* not raise: a JWT with a valid signature whose exp is not before the whole
\* second of the clock.
JwtDecodes(token, t) ==
    /\ token.kind = "jwt"
    /\ token.signed
    /\ ~(token.exp < Timestamp(t))

\* verify_poll_token(poll_id, token) at instant t; "" stands for None.
\* (VerifyPollTokenAnyPoll: the same without the comparison of poll_id.)
VerifyPollTokenAnyPoll(poll_id, token, t) ==
    IF token = NoToken THEN ""
    ELSE IF ~JwtDecodes(token, t) THEN ""
    ELSE token.email
VerifyPollToken(poll_id, token, t) ==
    IF token = NoToken THEN ""
    ELSE IF ~JwtDecodes(token, t) THEN ""
    ELSE IF token.poll_id # poll_id THEN ""
    ELSE token.email

\* verify_legacy_poll_token(poll_id, email, token)
VerifyLegacyPollToken(poll_id, email, token) ==
    IF token = NoToken \/ email = "" THEN FALSE
    ELSE token = LegacyToken(poll_id, email)

\* _get_allowed_voter_emails(poll, meeting)
\* (GetAllowedVoterEmailsAnyone: every address is allowed.)
GetAllowedVoterEmailsAnyone(p) == {Lower(e) : e \in CurrentUsers \ {""}}
GetAllowedVoterEmails(p) ==
    {Lower(e) : e \in Participants(p)}
        \cup (IF Organizer(p) # "" THEN {Lower(Organizer(p))} ELSE {})

\* token_email and user_email and token_email != user_email
\* (IdentityMismatchIgnored: the test never fires.)
IdentityMismatchIgnored(token_email, user_email) == FALSE
IdentityMismatch(token_email, user_email) ==
    token_email # "" /\ user_email # "" /\ token_email # user_email

\* _resolve_voter_identity(poll, meeting, token, voter_email_param,
\* current_user, require_identity) at instant t: the identity returned, "None",
\* or the HTTPException raised.
ResolveVoterIdentity(p, token, voter_email_param, current_user, require_identity, t) ==
    LET allowed_emails == GetAllowedVoterEmails(p)
        token_email ==
            IF token # NoToken THEN VerifyPollToken(p, token, t) ELSE ""
        legacy_email ==
            IF /\ token_email = ""
               /\ voter_email_param # ""
               /\ VerifyLegacyPollToken(p, voter_email_param, token)
            THEN Lower(voter_email_param) ELSE ""
        user_email == IF current_user # "" THEN Lower(current_user) ELSE ""
        candidate ==
            IF token_email # "" THEN token_email
            ELSE IF user_email # "" THEN user_email
            ELSE legacy_email
    IN IF token # NoToken /\ token_email = ""
       THEN "403: Invalid or missing poll token."
       ELSE IF IdentityMismatch(token_email, user_email)
       THEN "403: This poll link is tied to a different participant."
       ELSE IF candidate # "" /\ candidate \notin allowed_emails
       THEN IF require_identity
            THEN "403: Only invited participants may vote."
            ELSE "None"
       ELSE IF candidate = ""
       THEN IF require_identity
            THEN "403: Sign in or use your personalized poll link to vote."
            ELSE "None"
       ELSE candidate

\* The tokens a caller can put in a request: none, one that was issued, a
\* forged one, a legacy token.
PresentableTokens ==
    {NoToken, ForgedToken, LegacyToken(1, "Ann@X.io")}
        \cup {i.token : i \in issued}

\* create_poll of main.py, lines 1277-1282: one token per participant, from
\* the poll's deadline, at the current instant.
IssueTokens(p, deadline) ==
    /\ \A i \in issued : i.token.poll_id # p
    /\ issued' = issued \cup
          {[token |-> GeneratePollToken(p, e, deadline, clock),
            deadline |-> deadline, at |-> clock] : e \in Participants(p)}
    /\ UNCHANGED <<clock, resolved>>
    /\ UNCHANGED <<polls, calls, started, now, sweeper, outcome_vars, eval, loop_vars>>

\* get_poll and vote_poll of main.py call _resolve_voter_identity with
\* require_identity False and True.  The function never awaits, so calls do
\* not overlap; the call is kept until its handler has answered.
Resolve(p, token, voter_email_param, current_user, require_identity) ==
    /\ resolved = NoResolution
    /\ resolved' =
          [poll_id |-> p, token |-> token,
           voter_email_param |-> voter_email_param,
           current_user |-> current_user,
           require_identity |-> require_identity, at |-> clock,
           result |-> ResolveVoterIdentity(p, token, voter_email_param,
                                           current_user, require_identity,
                                           clock)]
    /\ UNCHANGED <<clock, issued>>
    /\ UNCHANGED <<polls, calls, started, now, sweeper, outcome_vars, eval, loop_vars>>

\* The handler answers the request with the identity or the HTTPException.
Answer ==
    /\ resolved # NoResolution
    /\ resolved' = NoResolution
    /\ UNCHANGED <<clock, issued>>
    /\ UNCHANGED <<polls, calls, started, now, sweeper, outcome_vars, eval, loop_vars>>

\* The clock moves to a later instant.
Advance(t) ==
    /\ t > clock
    /\ clock' = t
    /\ UNCHANGED <<issued, resolved>>
    /\ UNCHANGED <<polls, calls, started, now, sweeper, outcome_vars, eval, loop_vars>>

NextTokens ==
    \/ \E d \in TokenDeadlines : IssueTokens(1, d)
    \/ \E p \in TokenPollIds, token \in PresentableTokens,
          e \in VoterEmailParams, u \in CurrentUsers, req \in BOOLEAN :
           Resolve(p, token, e, u, req)
    \/ Answer
    \/ \E t \in Instants : Advance(t)

SpecTokens == Init /\ [][NextTokens]_vars

\* ------------------------------------------------------ interval functions
\* _merge_intervals and _generate_suggestions of main.py.  An interval is a
\* pair <<start, end>> of instants; a call is the arguments, then the result.
MAX_SUGGESTION_POOL == 96

\* The instants of the intervals given to _merge_intervals; a pair may be
\* empty or run backwards.
MergeTimes == 0..3
\* The instants of busy blocks and windows given to _generate_suggestions.
SuggestTimes == 0..5
\* timedelta(minutes=duration_minutes) and timedelta(minutes=slot_increment_minutes)
Durations == {1, 2}
Increments == {1, 2}

\* The lists of at most MaxIntervals pairs over a set of pairs.
ListsOf(pairs) == UNION {[1..n -> pairs] : n \in 0..MaxIntervals}

Max(a, b) == IF a >= b THEN a ELSE b
Min(a, b) == IF a <= b THEN a ELSE b

\* sorted(intervals, key=lambda x: x[0]): the list with its last element put
\* behind every element that does not start later, which keeps equal starts
\* in their order.
RECURSIVE SortedByStart(_)
SortedByStart(intervals) ==
    IF intervals = <<>> THEN <<>>
    ELSE LET n == Len(intervals)
             last == intervals[n]
             front == SortedByStart(SubSeq(intervals, 1, n - 1))
             keep == Cardinality({i \in 1..(n - 1) : front[i][1] <= last[1]})
         IN SubSeq(front, 1, keep) \o <<last>> \o SubSeq(front, keep + 1, n - 1)

\* if start <= merged[-1][1]
\* (JoinsOverlapOnly: the same test with < for <=.)
JoinsOverlapOnly(start, last_end) == start < last_end
Joins(start, last_end) == start <= last_end

\* The loop of _merge_intervals over intervals[1:].
RECURSIVE MergeLoop(_, _)
MergeLoop(merged, rest) ==
    IF rest = <<>> THEN merged
    ELSE LET start == Head(rest)[1]
             end == Head(rest)[2]
             n == Len(merged)
         IN IF Joins(start, merged[n][2])
            THEN MergeLoop([merged EXCEPT ![n] = <<merged[n][1],
                                                    Max(merged[n][2], end)>>],
                           Tail(rest))
            ELSE MergeLoop(Append(merged, <<start, end>>), Tail(rest))

\* _merge_intervals(intervals)
MergeIntervals(intervals) ==
    IF intervals = <<>> THEN <<>>
    ELSE LET sorted == SortedByStart(intervals)
         IN MergeLoop(<<Head(sorted)>>, Tail(sorted))

\* The passes of a while loop of _generate_suggestions that starts at cursor:
\* pass n + 1 appends the slot at cursor + n * increment, the loop goes on as
\* long as that slot ends by limit, and it makes at most room passes.  The
\* passes are counted, not recursed on, so that a pool of MAX_SUGGESTION_POOL
\* slots costs no nesting of that depth.
Passes(cursor, limit, duration, increment, room) ==
    LET stops == {n \in 0..room :
                     n = room \/ cursor + n * increment + duration > limit}
    IN CHOOSE n \in stops : \A m \in stops : n <= m

\* The inner while of _generate_suggestions: slots from slot_start on, as long
\* as they end by limit; the function returns after the append that fills the
\* pool, so a pass is made before the pool is looked at.
SlotsBefore(suggestions, slot_start, limit, duration, increment) ==
    LET room == Max(1, MAX_SUGGESTION_POOL - Len(suggestions))
        passes == Passes(slot_start, limit, duration, increment, room)
    IN suggestions \o
           [n \in 1..passes |->
               [start |-> slot_start + (n - 1) * increment,
                end |-> slot_start + (n - 1) * increment + duration]]

\* cursor = max(cursor, end)
\* (NextCursorKept: the cursor stays where it is.)
NextCursorKept(cursor, end) == cursor
NextCursor(cursor, end) == Max(cursor, end)

\* The for loop of _generate_suggestions from the i-th busy interval on: the
\* suggestions, the cursor, and whether the function has returned.
RECURSIVE BusyLoop(_, _, _, _, _, _, _)
BusyLoop(suggestions, cursor, busy_intervals, i, window_end, duration, increment) ==
    IF i > Len(busy_intervals)
    THEN [suggestions |-> suggestions, cursor |-> cursor, returned |-> FALSE]
    ELSE LET start == busy_intervals[i][1]
             end == busy_intervals[i][2]
             more == IF cursor < start
                     THEN SlotsBefore(suggestions, cursor,
                                      Min(start, window_end), duration,
                                      increment)
                     ELSE suggestions
             moved == NextCursor(cursor, end)
         IN IF Len(more) >= MAX_SUGGESTION_POOL
            THEN [suggestions |-> more, cursor |-> cursor, returned |-> TRUE]
            ELSE IF moved >= window_end
            THEN [suggestions |-> more, cursor |-> moved, returned |-> FALSE]
            ELSE BusyLoop(more, moved, busy_intervals, i + 1, window_end,
                          duration, increment)

\* The last while of _generate_suggestions: no pass once the pool is full.
SlotsAfter(suggestions, cursor, window_end, duration, increment) ==
    LET room == Max(0, MAX_SUGGESTION_POOL - Len(suggestions))
        passes == Passes(cursor, window_end, duration, increment, room)
    IN suggestions \o
           [n \in 1..passes |->
               [start |-> cursor + (n - 1) * increment,
                end |-> cursor + (n - 1) * increment + duration]]

\* (GenerateSuggestionsBusyLoopOnly: the function without its last while.)
GenerateSuggestionsBusyLoopOnly(busy_intervals, window_start, window_end, duration, increment) ==
    BusyLoop(<<>>, window_start, busy_intervals, 1, window_end, duration,
             increment).suggestions

\* _generate_suggestions(busy_intervals, window_start, window_end, duration,
\* increment, max_suggestions); max_suggestions is not read.
GenerateSuggestions(busy_intervals, window_start, window_end, duration, increment) ==
    LET loop == BusyLoop(<<>>, window_start, busy_intervals, 1, window_end,
                         duration, increment)
    IN IF loop.returned THEN loop.suggestions
       ELSE SlotsAfter(loop.suggestions, loop.cursor, window_end, duration,
                       increment)

\* A call that has not run yet.
Call(fn, args) == [fn |-> fn, args |-> args, done |-> FALSE, result |-> <<>>]

\* Busy blocks of a calendar: start before end.
BusyBlocks == {b \in SuggestTimes \X SuggestTimes : b[1] < b[2]}

\* _merge_intervals runs.
MergeCall ==
    /\ eval.fn = "_merge_intervals"
    /\ ~eval.done
    /\ eval' = [eval EXCEPT !.done = TRUE,
                            !.result = MergeIntervals(eval.args.intervals)]
    /\ UNCHANGED <<polls, calls, started, now, sweeper, outcome_vars, auth_vars,
                   loop_vars>>

\* _generate_suggestions runs.
SuggestCall ==
    /\ eval.fn = "_generate_suggestions"
    /\ ~eval.done
    /\ eval' = [eval EXCEPT !.done = TRUE,
                            !.result = GenerateSuggestions(
                                eval.args.busy_intervals,
                                eval.args.window_start, eval.args.window_end,
                                eval.args.duration, eval.args.increment)]
    /\ UNCHANGED <<polls, calls, started, now, sweeper, outcome_vars, auth_vars,
                   loop_vars>>

\* One call of _merge_intervals is about to run, on any list of pairs.
InitMerge ==
    /\ Started
    /\ eval \in
        {Call("_merge_intervals", [intervals |-> l]) :
            l \in ListsOf(MergeTimes \X MergeTimes)}

SpecMerge == InitMerge /\ [][MergeCall]_vars

\* One call of _generate_suggestions is about to run, as suggest_availability
\* makes it: the busy timeline is what _merge_intervals returned, the window is
\* one the handler accepts (window_end after window_start).
InitSuggest ==
    /\ Started
    /\ eval \in
        {Call("_generate_suggestions",
              [busy_intervals |-> busy, window_start |-> w[1],
               window_end |-> w[2], duration |-> d, increment |-> inc]) :
            busy \in {MergeIntervals(l) : l \in ListsOf(BusyBlocks)},
            w \in BusyBlocks, d \in Durations, inc \in Increments}

SpecSuggest == InitSuggest /\ [][SuggestCall]_vars

\* One call of _generate_suggestions is about to run when no participant has a
\* busy block; the windows are short ones and ones around the pool cap.
InitFreeCalendar ==
    /\ Started
    /\ eval \in
        {Call("_generate_suggestions",
              [busy_intervals |-> <<>>, window_start |-> ws,
               window_end |-> ws + w, duration |-> d, increment |-> inc]) :
            ws \in {0, 1},
            w \in (1..6) \cup
                      ((MAX_SUGGESTION_POOL - 1)..(MAX_SUGGESTION_POOL + 2)),
            d \in {1, 2, 3}, inc \in Increments}

SpecFreeCalendar == InitFreeCalendar /\ [][SuggestCall]_vars

\* ------------------------------------------------- human-friendly ordering
\* _prioritize_human_friendly_slots of main.py.  In this section and the next
\* an instant is a whole number of minutes since a midnight UTC, and a slot
\* is a record of its start and end.
MinutesPerHour == 60
HoursPerDay == 24
DAYPART_BUCKETS ==
    << [name |-> "morning", start_hour |-> 6, end_hour |-> 12],
       [name |-> "afternoon", start_hour |-> 12, end_hour |-> 17],
       [name |-> "evening", start_hour |-> 17, end_hour |-> 22] >>
QUIET_HOURS == <<6, 22>>

\* _get_zone(tz_name): the offset of the zone from UTC in hours; no name and
\* a name ZoneInfo does not know give UTC.
GetZone(tz_name) ==
    IF tz_name = "Asia/Dubai" THEN 4
    ELSE IF tz_name = "America/Bogota" THEN -5
    ELSE 0

\* slot["start"].astimezone(tz).hour
LocalHour(t, tz_name) ==
    ((t \div MinutesPerHour) + GetZone(tz_name)) % HoursPerDay

\* QUIET_HOURS[0] <= hour < QUIET_HOURS[1]
InQuietHours(hour) == QUIET_HOURS[1] <= hour /\ hour < QUIET_HOURS[2]

\* The first bucket with start_hour <= hour < end_hour; 0 when none has it.
\* (DaypartOfInclusiveEnd: the same with hour <= end_hour.)
DaypartOfInclusiveEnd(hour) ==
    LET fits == {b \in DOMAIN DAYPART_BUCKETS :
                    /\ DAYPART_BUCKETS[b].start_hour <= hour
                    /\ hour <= DAYPART_BUCKETS[b].end_hour}
    IN IF fits = {} THEN 0 ELSE CHOOSE b \in fits : \A c \in fits : b <= c
DaypartOf(hour) ==
    LET fits == {b \in DOMAIN DAYPART_BUCKETS :
                    /\ DAYPART_BUCKETS[b].start_hour <= hour
                    /\ hour < DAYPART_BUCKETS[b].end_hour}
    IN IF fits = {} THEN 0 ELSE CHOOSE b \in fits : \A c \in fits : b <= c

\* seq[:k] of Python: the first k elements, or all but the last -k.
Slice(seq, k) ==
    IF k >= 0 THEN SubSeq(seq, 1, Min(k, Len(seq)))
    ELSE SubSeq(seq, 1, Max(0, Len(seq) + k))

\* The elements of a list.
Range(seq) == {seq[i] : i \in DOMAIN seq}

\* One pass of `for name, _, _ in DAYPART_BUCKETS` from bucket b on: the first
\* slot of every bucket that has one, until max_suggestions are chosen.
RECURSIVE DrawRound(_, _, _)
DrawRound(draw, b, max_suggestions) ==
    IF b > Len(DAYPART_BUCKETS) THEN draw
    ELSE IF draw.buckets[b] = <<>> THEN DrawRound(draw, b + 1, max_suggestions)
    ELSE LET drawn == [prioritized |-> Append(draw.prioritized,
                                              Head(draw.buckets[b])),
                       buckets |-> [draw.buckets EXCEPT ![b] = Tail(@)],
                       picked |-> TRUE]
         IN IF Len(drawn.prioritized) >= max_suggestions THEN drawn
            ELSE DrawRound(drawn, b + 1, max_suggestions)

\* while len(prioritized) < max_suggestions: passes until one picks nothing.
RECURSIVE DrawRounds(_, _, _)
DrawRounds(prioritized, buckets, max_suggestions) ==
    IF Len(prioritized) < max_suggestions
    THEN LET round == DrawRound([prioritized |-> prioritized,
                                 buckets |-> buckets, picked |-> FALSE],
                                1, max_suggestions)
         IN IF round.picked
            THEN DrawRounds(round.prioritized, round.buckets, max_suggestions)
            ELSE round
    ELSE [prioritized |-> prioritized, buckets |-> buckets, picked |-> FALSE]

\* for slot in remaining: append the slots not chosen yet, until
\* max_suggestions are chosen.
RECURSIVE Backfill(_, _, _)
Backfill(prioritized, remaining, max_suggestions) ==
    IF remaining = <<>> THEN prioritized
    ELSE LET more == IF Head(remaining) \in Range(prioritized) THEN prioritized
                     ELSE Append(prioritized, Head(remaining))
         IN IF Len(more) >= max_suggestions THEN more
            ELSE Backfill(more, Tail(remaining), max_suggestions)

\* The lists of a function over 1..n, one after the other.
RECURSIVE Concat(_, _)
Concat(lists, n) == IF n = 0 THEN <<>> ELSE Concat(lists, n - 1) \o lists[n]

\* _prioritize_human_friendly_slots(slots, tz_name, max_suggestions)
PrioritizeHumanFriendlySlots(slots, tz_name, max_suggestions) ==
    LET in_hours ==
            SelectSeq(slots, LAMBDA s : InQuietHours(LocalHour(s.start, tz_name)))
        out_of_hours ==
            SelectSeq(slots, LAMBDA s : ~InQuietHours(LocalHour(s.start, tz_name)))
        buckets ==
            [b \in DOMAIN DAYPART_BUCKETS |->
                SelectSeq(in_hours,
                          LAMBDA s : DaypartOf(LocalHour(s.start, tz_name)) = b)]
        leftovers ==
            SelectSeq(in_hours,
                      LAMBDA s : DaypartOf(LocalHour(s.start, tz_name)) = 0)
        draw == DrawRounds(<<>>, buckets, max_suggestions)
        remaining == Concat(draw.buckets, Len(DAYPART_BUCKETS))
                         \o leftovers \o out_of_hours
    IN IF slots = <<>> THEN <<>>
       ELSE IF in_hours = <<>> THEN Slice(slots, max_suggestions)
       ELSE IF Len(draw.prioritized) < max_suggestions
       THEN Slice(Backfill(draw.prioritized, remaining, max_suggestions),
                  max_suggestions)
       ELSE Slice(draw.prioritized, max_suggestions)

\* The starts of the slots of a call: before, in and after the quiet hours of
\* a day (03:00, 07:30, 09:00, 13:00, 15:30, 18:00, 23:00), and 07:00 of the
\* next day.
SlotStarts == {180, 450, 540, 780, 930, 1080, 1380, 1860}
\* client_timezone of the request: none, zones east and west of UTC, and a
\* name that is no zone.
ZoneNames == {"", "Asia/Dubai", "America/Bogota", "Mars/Olympus"}
\* max_suggestions of the request.
SuggestionCounts == 0..4

\* The half-hour slots starting at the given instants, in chronological order, as
\* _generate_suggestions returns them for a positive increment.
RECURSIVE Chronological(_)
Chronological(starts) ==
    IF starts = {} THEN <<>>
    ELSE LET first == CHOOSE t \in starts : \A u \in starts : t <= u
         IN <<[start |-> first, end |-> first + 30]>>
                \o Chronological(starts \ {first})

\* _prioritize_human_friendly_slots runs.
PrioritizeCall ==
    /\ eval.fn = "_prioritize_human_friendly_slots"
    /\ ~eval.done
    /\ eval' = [eval EXCEPT !.done = TRUE,
                            !.result = PrioritizeHumanFriendlySlots(
                                eval.args.slots, eval.args.tz_name,
                                eval.args.max_suggestions)]
    /\ UNCHANGED <<polls, calls, started, now, sweeper, outcome_vars, auth_vars,
                   loop_vars>>

\* One call of _prioritize_human_friendly_slots is about to run.
InitPrioritize ==
    /\ Started
    /\ eval \in
        {Call("_prioritize_human_friendly_slots",
              [slots |-> Chronological(starts), tz_name |-> tz,
               max_suggestions |-> k]) :
            starts \in SUBSET SlotStarts, tz \in ZoneNames,
            k \in SuggestionCounts}

SpecPrioritize == InitPrioritize /\ [][PrioritizeCall]_vars

\* ------------------------------------------------------ suggestion request
\* suggest_availability of main.py: one request, with what the user store and
\* the calendars answer for each participant.  The handler changes no state
\* of the server: its response is computed from the request, the answers and
\* the clock.

\* list(dict.fromkeys(seq)): the first occurrence of every element.
RECURSIVE Unique(_)
Unique(seq) ==
    IF seq = <<>> THEN <<>>
    ELSE LET front == Unique(SubSeq(seq, 1, Len(seq) - 1))
             last == seq[Len(seq)]
         IN IF last \in Range(front) THEN front ELSE Append(front, last)

\* date_parser.isoparse(entry["start"]) and entry["end"] do not raise.
Parses(entry) == entry.parses

\* _parse_busy_entry(entry): the two instants in UTC; the entry gives them
\* with the offset of its zone, in hours.
ParseBusyEntry(entry) ==
    <<entry.start - entry.offset * MinutesPerHour,
      entry.end - entry.offset * MinutesPerHour>>

\* The loop over the participants from the i-th on: missing, missing_details
\* and busy, and whether an exception left the loop.
RECURSIVE CollectBusy(_, _, _, _)
CollectBusy(participants, i, calendars, acc) ==
    IF i > Len(participants) THEN acc
    ELSE LET email == participants[i]
             answer == calendars[email]
         IN IF answer.kind = "not connected"
            THEN CollectBusy(participants, i + 1, calendars,
                     [acc EXCEPT !.missing = Append(@, email),
                                 !.missing_details = @ \cup
                                     {<<email, "Google Calendar not connected">>}])
            ELSE IF answer.kind = "raises"
            THEN CollectBusy(participants, i + 1, calendars,
                     [acc EXCEPT !.missing = Append(@, email),
                                 !.missing_details = @ \cup
                                     {<<email, "Calendar access failed">>}])
            ELSE IF \E k \in DOMAIN answer.busy : ~Parses(answer.busy[k])
            THEN [acc EXCEPT !.raised = TRUE]
            ELSE CollectBusy(participants, i + 1, calendars,
                     [acc EXCEPT !.busy = @ \o
                         [k \in DOMAIN answer.busy |->
                             ParseBusyEntry(answer.busy[k])]])

\* A response that is an HTTPException or an unhandled exception.
Failure(status, detail) == [status |-> status, detail |-> detail]

\* suggest_availability(request, current_user) with the calendars' answers, at
\* instant t.
SuggestAvailability(request, current_user, calendars, t) ==
    LET participants == Unique(Append(request.participants, current_user))
        collected == CollectBusy(participants, 1, calendars,
                         [missing |-> <<>>, missing_details |-> {},
                          busy |-> <<>>, raised |-> FALSE])
        suggestions ==
            GenerateSuggestions(MergeIntervals(collected.busy),
                                request.window_start, request.window_end,
                                request.duration_minutes,
                                request.slot_increment_minutes)
        upcoming == SelectSeq(suggestions, LAMBDA slot : slot.end > t)
    IN IF request.participants = <<>>
       THEN Failure("400", "Participants are required")
       ELSE IF request.window_end <= request.window_start
       THEN Failure("400", "window_end must be after window_start")
       ELSE IF request.duration_minutes <= 0
       THEN Failure("400", "duration_minutes must be positive")
       ELSE IF collected.raised
       THEN Failure("500", "Internal Server Error")
       ELSE [status |-> "200",
             suggestions |->
                 PrioritizeHumanFriendlySlots(upcoming, request.client_timezone,
                                              request.max_suggestions),
             participants_missing |-> collected.missing,
             participants_missing_details |-> collected.missing_details]

\* What the user store and the calendar of a participant answer: no stored
\* credentials, get_free_busy raising, or busy entries; an entry may be one
\* that isoparse cannot read.
CalendarAnswers(entry) ==
    {[kind |-> "not connected", busy |-> <<>>],
     [kind |-> "raises", busy |-> <<>>],
     [kind |-> "busy", busy |-> <<entry>>],
     [kind |-> "busy", busy |-> <<[entry EXCEPT !.parses = FALSE]>>]}

\* The requests: windows from 05:30 UTC, empty or ending at 09:00.
SuggestRequests ==
    {[participants |-> ps, window_start |-> 330, window_end |-> we,
      duration_minutes |-> d, slot_increment_minutes |-> inc,
      max_suggestions |-> 3, client_timezone |-> tz] :
        ps \in {<<>>, <<"ann@x.io">>, <<"ann@x.io", "bob@x.io">>},
        we \in {330, 540}, d \in {-30, 0, 60}, inc \in {-30, 0, 30, 60},
        tz \in {"", "Asia/Dubai"}}

\* suggest_availability runs.
SuggestAvailabilityCall ==
    /\ eval.fn = "suggest_availability"
    /\ ~eval.done
    /\ eval' = [eval EXCEPT !.done = TRUE,
                            !.result = SuggestAvailability(
                                eval.args.request, eval.args.current_user,
                                eval.args.calendars, eval.args.at)]
    /\ UNCHANGED <<polls, calls, started, now, sweeper, outcome_vars, auth_vars,
                   loop_vars>>

\* The calls of suggest_availability.  Ann's calendar holds 06:30 to 07:30
\* UTC, Bob's 11:00 to 11:30 in a zone four hours east.
SuggestAvailabilityCalls ==
    {Call("suggest_availability",
          [request |-> request, current_user |-> "bob@x.io",
           calendars |-> [e \in {"ann@x.io", "bob@x.io"} |->
                             IF e = "ann@x.io" THEN ann ELSE bob],
           at |-> t]) :
        request \in SuggestRequests,
        ann \in CalendarAnswers([start |-> 390, end |-> 450,
                                 offset |-> 0, parses |-> TRUE]),
        bob \in CalendarAnswers([start |-> 660, end |-> 690,
                                 offset |-> 4, parses |-> TRUE]),
        t \in {0, 400}}

\* One suggestion request has arrived.
InitSuggestAvailability == Started /\ eval \in SuggestAvailabilityCalls

SpecSuggestAvailability ==
    InitSuggestAvailability /\ [][SuggestAvailabilityCall]_vars

\* ------------------------------------- auto-finalizer: store errors and stop
\* PollAutoFinalizer._run over two polls of one organizer, with store
\* operations that may raise and with stop() in its two steps: task.cancel(),
\* then the await of the task.

\* logger.error("Auto finalization failed for poll %s: %s", poll.id, exc)
FinalizationFailed(p) == [message |-> "Auto finalization failed", poll_id |-> p]

\* The polls the loop works on: both open, each with or without a deadline.
LoopPolls ==
    {<<OwnedPollDoc(1, "ann@x.io", [i \in OptionIndexes |-> RequestOption(i)], d1),
       OwnedPollDoc(2, "ann@x.io", [i \in OptionIndexes |-> RequestOption(3 - i)], d2)>> :
        d1 \in Deadlines, d2 \in Deadlines}

\* A step of the task while nobody has cancelled it.
RunStepUncancelled == stopping = "idle" /\ RunStep

\* find_one of get_poll raises in the sweep's finalize_poll: get_poll returns
\* None, finalize_poll returns None, and the sweep goes to its next poll.
RunGetPollFails ==
    /\ stopping = "idle"
    /\ faults < MaxFaults
    /\ finalizer.pc = "next"
    /\ finalizer.cursor # <<>>
    /\ faults' = faults + 1
    /\ finalizer' = [finalizer EXCEPT !.cursor = Tail(@)]
    /\ UNCHANGED <<polls, calls, started, now, sweeper, meeting, handlers>>
    /\ UNCHANGED <<auth_vars, eval, log, stopping>>

\* update_one raises in the sweep's finalize_poll: the exception is logged and
\* the sweep goes to its next poll.  The store may or may not have applied
\* the write before the error.
RunUpdateFails ==
    /\ stopping = "idle"
    /\ faults < MaxFaults
    /\ finalizer.pc = "update"
    /\ faults' = faults + 1
    /\ \/ polls' = polls
       \/ polls' = [polls EXCEPT ![finalizer.poll_id] = finalizer.poll]
    /\ log' = Append(log, FinalizationFailed(finalizer.poll_id))
    /\ finalizer' = [finalizer EXCEPT !.pc = "next", !.poll_id = None,
                                      !.poll = NoDoc]
    /\ UNCHANGED <<calls, started, now, sweeper, meeting, handlers>>
    /\ UNCHANGED <<auth_vars, eval, stopping>>

\* stop(): task.cancel(); stop() is suspended in `await self._task`.
StopCancel ==
    /\ stopping = "idle"
    /\ finalizer.pc # "stopped"
    /\ stopping' = "awaiting"
    /\ UNCHANGED <<polls, calls, started, now, sweeper, outcome_vars>>
    /\ UNCHANGED <<auth_vars, eval, faults, log>>

\* The task once CancelledError has been raised at its await: it passes the
\* `except Exception` handlers, _run breaks out of its loop and the task ends.
\* (AfterCancelSwallowed: a handler catches CancelledError as it catches a
\* store error, and the sweep goes on.)
AfterCancelSwallowed(task) == [task EXCEPT !.pc = "next", !.poll_id = None,
                                           !.poll = NoDoc]
AfterCancel(task) == [StartedFinalizer EXCEPT !.pc = "stopped"]

\* The cancelled task is resumed.  A store write it was suspended in may or
\* may not have been applied.
Cancelled ==
    /\ stopping = "awaiting"
    /\ finalizer.pc # "stopped"
    /\ finalizer' = AfterCancel(finalizer)
    /\ \/ UNCHANGED <<polls, meeting>>
       \/ /\ finalizer.pc = "update"
          /\ polls' = [polls EXCEPT ![finalizer.poll_id] = finalizer.poll]
          /\ UNCHANGED meeting
       \/ /\ finalizer.pc = "apply_update"
          /\ meeting' = Scheduled(meeting, WinningOption(finalizer.poll), now)
          /\ UNCHANGED polls
       \/ /\ finalizer.pc = "apply_meta"
          /\ meeting' = WithoutPollPending(meeting, now)
          /\ UNCHANGED polls
    /\ UNCHANGED <<calls, started, now, sweeper, handlers>>
    /\ UNCHANGED <<auth_vars, eval, loop_vars>>

\* stop(): the awaited task has ended; self._task = None and stop() returns.
StopReturn ==
    /\ stopping = "awaiting"
    /\ finalizer.pc = "stopped"
    /\ stopping' = "idle"
    /\ UNCHANGED <<polls, calls, started, now, sweeper, outcome_vars>>
    /\ UNCHANGED <<auth_vars, eval, faults, log>>

\* start() once stop() has returned; while stop() awaits the task, self._task
\* is still set and start() returns at once.
StartAgain == stopping = "idle" /\ Start

NextLoop ==
    \/ RunStepUncancelled
    \/ RunGetPollFails
    \/ RunUpdateFails
    \/ StopCancel
    \/ Cancelled
    \/ StopReturn
    \/ StartAgain
    \/ Tick

\* Two polls are stored and the loop has been started.
InitLoop ==
    /\ polls \in LoopPolls
    /\ calls = [c \in Slots |-> IdleCall]
    /\ started = 0
    /\ now = 0
    /\ sweeper = IdleSweeper
    /\ meeting = PendingMeeting
    /\ handlers = [r \in Requests |-> NewHandler]
    /\ finalizer = StartedFinalizer
    /\ clock = 0
    /\ issued = {}
    /\ resolved = NoResolution
    /\ eval = NoEval
    /\ faults = 0
    /\ log = <<>>
    /\ stopping = "idle"

SpecLoop == InitLoop /\ [][NextLoop]_vars

\* The event loop resumes the task, cancelled or not, and resumes stop() once
\* the task it awaits has ended.
FairLoop ==
    /\ SpecLoop
    /\ WF_vars(RunStepUncancelled)
    /\ WF_vars(Cancelled)
    /\ WF_vars(StopReturn)

\* ------------------------------------------------------------ properties
OptionIds(poll) == {poll.options[i].id : i \in DOMAIN poll.options}
VoteSet(poll) == {poll.votes[i] : i \in DOMAIN poll.votes}
VotesOf(poll, voter_email) ==
    SelectSeq(poll.votes, LAMBDA v : Lower(v.voter_email) = Lower(voter_email))
RECURSIVE SumVotes(_)
SumVotes(options) ==
    IF options = <<>> THEN 0 ELSE Head(options).votes + SumVotes(Tail(options))

\* The step is the update_one of a finalize_poll (a request's or the sweep's)
\* on poll p.
FinalizeWrites(p) ==
    \/ \E c \in Slots : FinalizeUpdate(c) /\ calls[c].poll_id = p
    \/ SweepFinalizeUpdate /\ sweeper.poll_id = p

\* The step is coroutine c starting the method op on poll p: its get_poll and
\* what follows up to the first return, raise or update_one.
Starts(c, op, p) ==
    /\ calls[c].pc = "idle"
    /\ calls'[c].pc # "idle"
    /\ calls'[c].op = op
    /\ calls'[c].poll_id = p

\* C1: once the stored poll is closed, no step adds a vote to its stored vote
\* set: a vote racing with a finalize is in the set before the close or is
\* rejected.
C1_NoVoteRecordedAfterClose ==
    [][\A p \in DOMAIN polls :
          polls[p].status = "closed" => VoteSet(polls'[p]) \subseteq VoteSet(polls[p])]_vars

\* C2: of finalize calls racing on one poll only one sets the winner: the
\* update_one of a finalize never replaces a stored winning_option_id by
\* another one.
C2_WinnerSetOnce ==
    [][\A p \in DOMAIN polls :
          (FinalizeWrites(p) /\ polls[p].winning_option_id # None) =>
              polls'[p].winning_option_id = polls[p].winning_option_id]_vars

\* C3: the stored status of a poll never goes from closed back to open.
C3_StatusNeverReopens ==
    [][\A p \in DOMAIN polls :
          polls[p].status = "closed" => polls'[p].status = "closed"]_vars

\* C4: in every stored poll, winning_option_id is set exactly when the status
\* is closed.
C4_WinnerIffClosed ==
    \A p \in DOMAIN polls :
        (polls[p].winning_option_id # None) <=> (polls[p].status = "closed")

C4_Witness ==
    \E p \in DOMAIN polls :
        /\ polls[p].status = "closed"
        /\ polls[p].winning_option_id \in OptionIds(polls[p])
        /\ polls[p].votes # <<>>

\* C5: in every stored poll, the options' vote counts add up to the number of
\* votes in the vote set.
C5_CountsSumToVotes ==
    \A p \in DOMAIN polls : SumVotes(polls[p].options) = Len(polls[p].votes)

\* C6: a stored vote set holds at most one vote per voter compared without
\* regard to case, and the update_one of an add_vote leaves exactly one stored
\* vote of its voter: the one for the option just voted.
C6_OneVotePerVoter ==
    /\ [](\A p \in DOMAIN polls : \A e \in Emails : Len(VotesOf(polls[p], e)) <= 1)
    /\ [][\A c \in Slots :
             AddVoteUpdate(c) =>
                 VotesOf(polls'[calls[c].poll_id], calls[c].voter_email)
                     = << [option_id |-> calls[c].option_id,
                           voter_email |-> calls[c].voter_email] >>]_vars

\* Two add_vote calls of one voter, under two spellings and for two options,
\* have both returned their poll; the store holds the later write alone.
C6_Witness ==
    \E c, d \in Slots :
        /\ calls[d].pc = "done" /\ calls[d].op = "add_vote"
        /\ calls[d].result = "poll"
        /\ calls[d].poll.votes = << [option_id |-> 1, voter_email |-> "ann@x.io"] >>
        /\ calls[c].pc = "done" /\ calls[c].op = "add_vote"
        /\ calls[c].result = "poll"
        /\ calls[c].poll.votes = << [option_id |-> 2, voter_email |-> "Ann@X.io"] >>
        /\ polls[calls[c].poll_id].votes = calls[c].poll.votes
        /\ polls[calls[c].poll_id].options[1].votes = 0
        /\ polls[calls[c].poll_id].options[2].votes = 1

\* C7: an add_vote that reads a closed poll raises "Poll is closed" and reaches
\* no update_one; the stored poll stays as it is.
C7_VoteOnClosedRejected ==
    [][\A c \in Slots, p \in DOMAIN polls :
          (Starts(c, "add_vote", p) /\ polls[p].status = "closed") =>
              /\ calls'[c].pc = "done"
              /\ calls'[c].result = "ValueError: Poll is closed"
              /\ polls' = polls]_vars

C7_Witness ==
    \E c \in Slots :
        /\ calls[c].pc = "done" /\ calls[c].op = "add_vote"
        /\ calls[c].result = "ValueError: Poll is closed"
        /\ polls[calls[c].poll_id].status = "closed"

\* C8: an add_vote that reads an open poll with a deadline raises "Poll
\* deadline has passed" and reaches no update_one when now >= deadline,
\* whoever the voter is, and goes on to record the vote when now < deadline.
C8_LateVoteRejected ==
    [][\A c \in Slots, p \in DOMAIN polls :
          (/\ Starts(c, "add_vote", p)
           /\ polls[p].status = "open"
           /\ polls[p].deadline # None) =>
              IF now >= polls[p].deadline
              THEN /\ calls'[c].pc = "done"
                   /\ calls'[c].result = "ValueError: Poll deadline has passed"
                   /\ polls' = polls
              ELSE /\ calls'[c].pc = "update"
                   /\ [option_id |-> calls'[c].option_id,
                       voter_email |-> calls'[c].voter_email]
                          \in VoteSet(calls'[c].poll)]_vars

C8_Witness ==
    \E c \in Slots :
        /\ calls[c].pc = "done" /\ calls[c].op = "add_vote"
        /\ calls[c].result = "ValueError: Poll deadline has passed"
        /\ polls[calls[c].poll_id].status = "open"
        /\ now >= polls[calls[c].poll_id].deadline

\* C9: an add_vote naming an option_id that no option of the poll has is
\* refused and records nothing: every vote in a stored vote set names an
\* option of its poll.
C9_UnknownOptionRejected ==
    \A p \in DOMAIN polls :
        \A v \in VoteSet(polls[p]) : v.option_id \in OptionIds(polls[p])

\* C10: a finalize_poll that reads a closed poll returns the poll as read,
\* with the stored winning_option_id, and reaches no update_one, whatever
\* option_id it is given; the sweep's finalize of a closed poll writes nothing
\* either.
C10_FinalizeClosedIsNoOp ==
    [][/\ \A c \in Slots, p \in DOMAIN polls :
            (Starts(c, "finalize_poll", p) /\ polls[p].status = "closed") =>
                /\ calls'[c].pc = "done"
                /\ calls'[c].result = "poll as read"
                /\ calls'[c].poll = polls[p]
                /\ polls' = polls
       /\ (/\ SweepFinalizeGet
           /\ polls[Head(sweeper.cursor)].status = "closed") =>
               /\ sweeper'.pc = "next"
               /\ polls' = polls]_vars

C10_Witness ==
    \E c \in Slots :
        /\ calls[c].pc = "done" /\ calls[c].op = "finalize_poll"
        /\ calls[c].result = "poll as read"
        /\ calls[c].poll.status = "closed"
        /\ polls[calls[c].poll_id] = calls[c].poll

\* The option of poll whose id is id.
OptionWithId(poll, id) ==
    CHOOSE o \in {poll.options[i] : i \in DOMAIN poll.options} : o.id = id

\* id names an option of poll that no option beats by votes, and that starts
\* no later than any option with as many votes.
MostVotedEarliest(poll, id) ==
    /\ id \in OptionIds(poll)
    /\ \A i \in DOMAIN poll.options :
          /\ poll.options[i].votes <= OptionWithId(poll, id).votes
          /\ poll.options[i].votes = OptionWithId(poll, id).votes =>
                 OptionWithId(poll, id).start_time <= poll.options[i].start_time

\* C11: a finalize_poll without option_id that reads an open poll (a request's
\* or the sweep's) computes as winner an option with the highest vote count
\* and, among those, the earliest start_time.
C11_WinnerIsMostVotedEarliest ==
    [][/\ \A c \in Slots, p \in DOMAIN polls :
            (/\ Starts(c, "finalize_poll", p)
             /\ polls[p].status = "open"
             /\ calls'[c].pc = "update"
             /\ calls'[c].option_id = None) =>
                 MostVotedEarliest(polls[p], calls'[c].poll.winning_option_id)
       /\ (SweepFinalizeGet /\ sweeper'.pc = "update") =>
              MostVotedEarliest(polls[sweeper'.poll_id],
                                sweeper'.poll.winning_option_id)]_vars

\* The sweep has computed the winner of a poll whose two options have one vote
\* each: the second in list order, which starts earlier.
C11_Witness ==
    /\ sweeper.pc = "update"
    /\ sweeper.poll.options[1].votes = 1
    /\ sweeper.poll.options[2].votes = 1
    /\ sweeper.poll.options[1].start_time > sweeper.poll.options[2].start_time
    /\ sweeper.poll.winning_option_id = sweeper.poll.options[2].id

\* C12: a step of a finalize request whose caller is not the poll's organizer
\* leaves the stored status and winning_option_id of the poll and the meeting
\* as they are, and the request ends with the 403 of the organizer check.
C12_NonOrganizerFinalizeRejected ==
    [][\A r \in Requests, p \in DOMAIN polls :
          (/\ handlers'[r] # handlers[r]
           /\ handlers'[r].op = "finalize_poll"
           /\ NotOrganizer(polls[p], handlers'[r].user)) =>
              /\ polls'[p].status = polls[p].status
              /\ polls'[p].winning_option_id = polls[p].winning_option_id
              /\ meeting' = meeting
              /\ handlers'[r].pc = "done" =>
                     handlers'[r].result =
                         "403: You can only finalize polls you created."]_vars

\* The stored poll p is open and its deadline has passed.
ExpiredOpen(p) ==
    /\ p \in DOMAIN polls
    /\ polls[p].status = "open"
    /\ polls[p].deadline # None
    /\ polls[p].deadline <= now

\* The stored poll p is closed and has a winner.
ClosedWithWinner(p) ==
    /\ p \in DOMAIN polls
    /\ polls[p].status = "closed"
    /\ polls[p].winning_option_id # None

\* C13: while the auto-finalizer task runs, an open poll whose deadline has
\* passed is eventually closed with a winner, and the close the task writes
\* carries the winner of the rule without option_id: most votes, then earliest
\* start.
C13_ExpiredPollEventuallyClosed ==
    /\ \A p \in PollIds :
          (ExpiredOpen(p) /\ finalizer.pc # "stopped") ~>
              (ClosedWithWinner(p) \/ finalizer.pc = "stopped")
    /\ [][RunFinalizeUpdate =>
             /\ polls'[finalizer.poll_id] = finalizer.poll
             /\ finalizer.poll.status = "closed"
             /\ MostVotedEarliest(finalizer.poll,
                                  finalizer.poll.winning_option_id)]_vars

\* The auto-finalizer has closed an expired poll that holds a vote, and the
\* winner is the voted option although the other one starts earlier.
C13_Witness ==
    /\ finalizer.pc = "next"
    /\ Len(finalizer.finalized) = 1
    /\ ClosedWithWinner(1)
    /\ polls[1] = finalizer.finalized[1]
    /\ polls[1].options[1].votes = 1
    /\ polls[1].options[1].start_time > polls[1].options[2].start_time
    /\ polls[1].winning_option_id = polls[1].options[1].id

\* The meeting carries the outcome of the closed poll p: the times of the
\* winning option, and poll_pending cleared.
Applied(p) ==
    /\ HasWinningOption(polls[p])
    /\ meeting.start_time = WinningOption(polls[p]).start_time
    /\ meeting.end_time = WinningOption(polls[p]).end_time
    /\ ~meeting.poll_pending

\* The auto-finalizer has closed poll p and holds it in the list of polls
\* whose outcome it is about to apply; no finalize request has been made.
ClosedBySweep(p) ==
    /\ p \in DOMAIN polls
    /\ finalizer.pc = "next"
    /\ finalizer.finalized # <<>>
    /\ Head(finalizer.finalized) = polls[p]
    /\ polls[p].status = "closed"
    /\ \A r \in Requests : handlers[r].op # "finalize_poll"

\* C14: the outcome of a closed poll is eventually applied to the meeting: the
\* meeting gets the winning option's start_time and end_time and loses
\* poll_pending.  The case taken is the one the claim spells out: the
\* auto-finalizer has closed the poll and something happens before it applies
\* the outcome.
C14_ClosedPollOutcomeApplied ==
    \A p \in PollIds : ClosedBySweep(p) ~> (p \in DOMAIN polls /\ Applied(p))

\* min(issue time + default TTL, poll deadline), or issue time + default TTL
\* for a poll without deadline: an instant, in ticks.
ExpectedExpiry(i) ==
    IF i.deadline = None THEN i.at + TokenTtl
    ELSE IF i.deadline < i.at + TokenTtl THEN i.deadline
    ELSE i.at + TokenTtl

\* C15 as stated: the expiry of every issued token is the instant
\* min(issue time + default TTL, poll deadline).
C15_ExpiryIsMinimum ==
    \A i \in issued : i.token.exp * TicksPerSecond = ExpectedExpiry(i)

\* C15: the exp of every issued token is the whole second of
\* min(issue time + default TTL, poll deadline): less than a second before
\* that instant, never after it, and so never after the poll's deadline.
C15_ExpiryIsMinimumInWholeSeconds ==
    \A i \in issued :
        /\ i.token.exp = Timestamp(ExpectedExpiry(i))
        /\ i.token.exp * TicksPerSecond <= ExpectedExpiry(i)
        /\ ExpectedExpiry(i) < (i.token.exp + 1) * TicksPerSecond
        /\ i.deadline # None => i.token.exp * TicksPerSecond <= i.deadline

\* A token was issued for a poll whose deadline comes before the default
\* lifetime ends and falls between two seconds.
C15_Witness ==
    \E i \in issued :
        /\ i.deadline # None
        /\ i.deadline < i.at + TokenTtl
        /\ i.token.exp * TicksPerSecond < i.deadline

\* The tokens generate_poll_token has returned.
IssuedTokens == {i.token : i \in issued}

\* The HTTPExceptions of _resolve_voter_identity, all with status 403.
AuthorizationErrors ==
    {"403: Invalid or missing poll token.",
     "403: This poll link is tied to a different participant.",
     "403: Only invited participants may vote.",
     "403: Sign in or use your personalized poll link to vote."}

AuthorizedSet(p) ==
    {Lower(e) : e \in Participants(p)} \cup {Lower(Organizer(p))}

\* C17: with require_identity=True, whatever token, voter_email and logged-in
\* user the request carries, _resolve_voter_identity returns a member of the
\* poll's authorized set or raises a 403.
C17_ResolvedIdentityIsAuthorized ==
    (resolved # NoResolution /\ resolved.require_identity) =>
        \/ resolved.result \in AuthorizedSet(resolved.poll_id)
        \/ resolved.result \in AuthorizationErrors

\* A logged-in user who is neither participant nor organizer asked to vote
\* and was rejected.
C17_Witness ==
    /\ resolved.require_identity
    /\ resolved.token = NoToken
    /\ resolved.current_user # ""
    /\ Lower(resolved.current_user) \notin AuthorizedSet(resolved.poll_id)
    /\ resolved.result = "403: Only invited participants may vote."

\* The identity the token of the last request stands for on the poll asked
\* for, "" if none.
TokenIdentity ==
    VerifyPollToken(resolved.poll_id, resolved.token, resolved.at)

\* C18: a request whose token stands for one identity and whose logged-in
\* user is another is rejected with a 403, for voting (require_identity) and
\* for reading alike.
C18_MismatchRejected ==
    (/\ resolved # NoResolution
     /\ TokenIdentity # ""
     /\ resolved.current_user # ""
     /\ Lower(resolved.current_user) # TokenIdentity) =>
        resolved.result \in AuthorizationErrors

\* A poll was read with a participant's valid token by another logged-in
\* user, and the request was rejected.
C18_Witness ==
    /\ resolved # NoResolution
    /\ ~resolved.require_identity
    /\ TokenIdentity # ""
    /\ resolved.current_user # ""
    /\ Lower(resolved.current_user) # TokenIdentity
    /\ resolved.result =
           "403: This poll link is tied to a different participant."

\* The instants an interval list covers: t is covered when start <= t < end
\* for one of the intervals.
Covered(intervals, times) ==
    {t \in times : \E i \in DOMAIN intervals :
                       intervals[i][1] <= t /\ t < intervals[i][2]}

\* C19: the list _merge_intervals returns is sorted by start, any two of its
\* intervals neither overlap nor touch, it is no longer than the input, and it
\* covers the same instants as the input; the empty list gives the empty
\* list.
C19_MergedIsSortedDisjointSameCover ==
    (eval.fn = "_merge_intervals" /\ eval.done) =>
        LET input == eval.args.intervals
            merged == eval.result
        IN /\ \A i, j \in DOMAIN merged :
                  i < j => /\ merged[i][1] <= merged[j][1]
                           /\ merged[i][2] < merged[j][1]
           /\ Len(merged) <= Len(input)
           /\ Covered(merged, MergeTimes) = Covered(input, MergeTimes)
           /\ input = <<>> => merged = <<>>

\* Three intervals given out of order, two of them touching, came back as
\* two.
C19_Witness ==
    /\ eval.fn = "_merge_intervals"
    /\ eval.done
    /\ eval.args.intervals = << <<2, 3>>, <<0, 1>>, <<1, 2>> >>
    /\ eval.result = << <<0, 3>> >>

\* C20: every slot _generate_suggestions returns for a merged busy timeline
\* lasts exactly duration, starts no earlier than window_start, ends no later
\* than window_end, and shares no instant with a busy interval.
C20_SlotsFitWindowAndAvoidBusy ==
    (eval.fn = "_generate_suggestions" /\ eval.done) =>
        \A k \in DOMAIN eval.result :
            LET slot == eval.result[k]
                busy == eval.args.busy_intervals
            IN /\ slot.end - slot.start = eval.args.duration
               /\ eval.args.window_start <= slot.start
               /\ slot.end <= eval.args.window_end
               /\ \A i \in DOMAIN busy :
                      slot.end <= busy[i][1] \/ busy[i][2] <= slot.start

\* Slots were returned before, between and after two busy intervals inside
\* the window.
C20_Witness ==
    /\ eval.fn = "_generate_suggestions"
    /\ eval.done
    /\ Len(eval.args.busy_intervals) = 2
    /\ \E a, b, c \in DOMAIN eval.result :
          /\ eval.result[a].end <= eval.args.busy_intervals[1][1]
          /\ eval.args.busy_intervals[1][2] <= eval.result[b].start
          /\ eval.result[b].end <= eval.args.busy_intervals[2][1]
          /\ eval.args.busy_intervals[2][2] <= eval.result[c].start

\* floor((W - D) / I) + 1 for the window, duration and increment of a call.
SlotFormula(args) ==
    ((args.window_end - args.window_start - args.duration) \div args.increment) + 1

\* C21: without busy intervals _generate_suggestions returns exactly
\* floor((W - D) / I) + 1 slots.
C21_SlotCountIsFormula ==
    (eval.fn = "_generate_suggestions" /\ eval.done
        /\ eval.args.busy_intervals = <<>>) =>
        Len(eval.result) = SlotFormula(eval.args)

\* C21, amended: without busy intervals the number of slots is
\* floor((W - D) / I) + 1, but never less than 0 (a duration longer than the
\* window) and never more than MAX_SUGGESTION_POOL.
C21_SlotCountIsFormulaWithinPool ==
    (eval.fn = "_generate_suggestions" /\ eval.done
        /\ eval.args.busy_intervals = <<>>) =>
        Len(eval.result) = Min(MAX_SUGGESTION_POOL, Max(0, SlotFormula(eval.args)))

\* A free window that fits more slots than the pool holds came back with a
\* full pool.
C21_Witness ==
    /\ eval.fn = "_generate_suggestions"
    /\ eval.done
    /\ eval.args.busy_intervals = <<>>
    /\ SlotFormula(eval.args) > MAX_SUGGESTION_POOL
    /\ Len(eval.result) = MAX_SUGGESTION_POOL

\* The daypart of a local hour as the ordering rule names them: 1 morning
\* (06-12), 2 afternoon (12-17), 3 evening (17-22), 0 outside them.
Daypart(hour) ==
    IF 6 <= hour /\ hour < 12 THEN 1
    ELSE IF 12 <= hour /\ hour < 17 THEN 2
    ELSE IF 17 <= hour /\ hour < 22 THEN 3
    ELSE 0

\* The place the round-robin rule gives the i-th slot of a list: slots of a
\* daypart by the number of earlier slots of the same daypart, then by
\* daypart; behind them the slots outside the dayparts as they come.
RoundRobinPlace(slots, tz_name, i) ==
    LET part(j) == Daypart(LocalHour(slots[j].start, tz_name))
        inside == {j \in DOMAIN slots : part(j) # 0}
        outside == DOMAIN slots \ inside
        round(j) == Cardinality({h \in inside : h < j /\ part(h) = part(j)})
        ahead(j) == {h \in inside : \/ round(h) < round(j)
                                    \/ round(h) = round(j) /\ part(h) < part(j)}
    IN IF i \in inside THEN Cardinality(ahead(i)) + 1
       ELSE Cardinality(inside) + Cardinality({h \in outside : h < i}) + 1

\* C28: the list _prioritize_human_friendly_slots returns is the first k slots
\* of the round-robin order: one slot per daypart per round in the order
\* morning, afternoon, evening, the earliest remaining of each, and the slots
\* outside the dayparts behind them in their original order.  It has at most
\* k entries and every entry is an input slot.
C28_RoundRobinByDaypart ==
    (eval.fn = "_prioritize_human_friendly_slots" /\ eval.done) =>
        LET slots == eval.args.slots
            k == eval.args.max_suggestions
        IN /\ Len(eval.result) = Min(k, Len(slots))
           /\ \A n \in DOMAIN eval.result :
                  \E i \in DOMAIN slots :
                      /\ RoundRobinPlace(slots, eval.args.tz_name, i) = n
                      /\ eval.result[n] = slots[i]

\* In a zone east of UTC four slots were chosen: the second slot of the first
\* daypart came in the second round, and a slot outside the dayparts came last.
C28_Witness ==
    /\ eval.fn = "_prioritize_human_friendly_slots"
    /\ eval.done
    /\ eval.args.tz_name = "Asia/Dubai"
    /\ Len(eval.result) = 4
    /\ LET part(n) == Daypart(LocalHour(eval.result[n].start, eval.args.tz_name))
       IN /\ part(1) # 0
          /\ part(2) \notin {0, part(1)}
          /\ part(3) = part(1)
          /\ part(4) = 0
          /\ eval.result[3].start < eval.result[2].start

\* A suggestion request the validation has to reject.
InvalidSuggestRequest(request) ==
    \/ request.duration_minutes <= 0
    \/ request.slot_increment_minutes <= 0
    \/ request.window_end <= request.window_start

\* Every busy entry the calendars return can be read.
EveryEntryParses(args) ==
    \A e \in DOMAIN args.calendars :
        \A k \in DOMAIN args.calendars[e].busy :
            Parses(args.calendars[e].busy[k])

\* C22: a suggestion request with a non-positive duration, a non-positive
\* increment or a window that does not end after its start is answered with
\* a validation error (400) and no suggestions, here with calendars whose
\* entries can all be read.
C22_InvalidRequestRejected ==
    (eval.fn = "suggest_availability" /\ eval.done
        /\ EveryEntryParses(eval.args)
        /\ InvalidSuggestRequest(eval.args.request)) =>
        eval.result.status = "400"

\* The participants of a request whose calendar could not be obtained or
\* read.
FailedCalendars(args) ==
    {e \in Range(Unique(Append(args.request.participants, args.current_user))) :
        \/ args.calendars[e].kind # "busy"
        \/ \E k \in DOMAIN args.calendars[e].busy :
               ~Parses(args.calendars[e].busy[k])}

\* C23: a valid suggestion request is answered with suggestions whatever
\* fails for one participant's calendar: every such participant is in
\* participants_missing with a reason in participants_missing_details, and no
\* suggestion overlaps a busy block of another participant.
C23_CalendarFailureIsReported ==
    (eval.fn = "suggest_availability" /\ eval.done
        /\ eval.args.request.participants # <<>>
        /\ ~InvalidSuggestRequest(eval.args.request)) =>
        /\ eval.result.status = "200"
        /\ \A e \in FailedCalendars(eval.args) :
               /\ e \in Range(eval.result.participants_missing)
               /\ \E d \in eval.result.participants_missing_details : d[1] = e
        /\ \A e \in DOMAIN eval.args.calendars, n \in DOMAIN eval.result.suggestions :
               (/\ e \in Range(Unique(Append(eval.args.request.participants,
                                              eval.args.current_user)))
                /\ e \notin FailedCalendars(eval.args)) =>
                   \A k \in DOMAIN eval.args.calendars[e].busy :
                       LET block == ParseBusyEntry(eval.args.calendars[e].busy[k])
                       IN \/ eval.result.suggestions[n].end <= block[1]
                          \/ block[2] <= eval.result.suggestions[n].start

\* An add_vote call that has returned the poll, and the vote it recorded: the
\* last one of the document it wrote.
VoteReturned(c) ==
    /\ calls[c].pc = "done"
    /\ calls[c].op = "add_vote"
    /\ calls[c].result = "poll"
RecordedVote(c) == calls[c].poll.votes[Len(calls[c].poll.votes)]

\* C24: when two add_vote calls of two different voters on one poll have both
\* returned the poll, the stored votes hold both votes and the stored counts
\* are the counts of the stored votes.
C24_BothVotesStored ==
    \A c, d \in Slots :
        (/\ c # d
         /\ VoteReturned(c)
         /\ VoteReturned(d)
         /\ calls[c].poll_id = calls[d].poll_id
         /\ Lower(RecordedVote(c).voter_email) # Lower(RecordedVote(d).voter_email)) =>
            LET poll == polls[calls[c].poll_id]
            IN /\ RecordedVote(c) \in Range(poll.votes)
               /\ RecordedVote(d) \in Range(poll.votes)
               /\ poll.options = Recount(poll.options, poll.votes)

\* The auto-finalizer task holds a poll it has closed or is closing and whose
\* outcome it has not applied to the end.
FinalizationInFlight ==
    \/ finalizer.pc \in {"update", "apply_update", "apply_meta"}
    \/ finalizer.finalized # <<>>

\* C26: the auto-finalizer loop never exits while the finalization of a poll
\* is in flight: stop() ends the task only once every poll the sweep closed
\* has its outcome applied.
C26_StopWaitsForFinalization ==
    [][(finalizer.pc # "stopped" /\ finalizer'.pc = "stopped")
          => ~FinalizationInFlight]_vars

\* C29: the winning_option_id of a stored closed poll is the id of one of the
\* poll's options.
C29_WinnerIsAnOption ==
    \A p \in DOMAIN polls :
        polls[p].status = "closed" =>
            \E i \in DOMAIN polls[p].options :
                polls[p].options[i].id = polls[p].winning_option_id

\* C30: a sweep closes a poll only if the poll has a deadline and the deadline
\* is not after the clock, and no poll is at one instant open to votes and
\* selected by the sweep's query.
C30_SweepClosesExpiredOnly ==
    /\ [][SweepFinalizeUpdate =>
             /\ polls[sweeper.poll_id].deadline # None
             /\ polls[sweeper.poll_id].deadline <= now]_vars
    /\ [](\A p \in DOMAIN polls :
             ~(/\ AddVoteCheck(polls[p], now) = "ok"
               /\ p \in Range(ExpiredOpenPolls(polls, now))))

\* The sweep has closed a poll whose deadline has come, and a poll that holds
\* a vote cast before it.
C30_Witness ==
    /\ sweeper.finalized # <<>>
    /\ \E p \in DOMAIN polls :
          /\ polls[p].status = "closed"
          /\ polls[p].deadline # None
          /\ polls[p].deadline <= now
          /\ polls[p].votes # <<>>

\* C25: when the finalization of one poll fails inside a sweep, the failure
\* is logged for that poll, the sweep goes on with the polls it has not
\* visited yet, and the polls it has finalized stay on its list.
C25_FailureLoggedAndSkipped ==
    [][(RunGetPollFails \/ RunUpdateFails) =>
          LET failed == IF finalizer.pc = "update" THEN finalizer.poll_id
                        ELSE Head(finalizer.cursor)
          IN /\ log' = Append(log, FinalizationFailed(failed))
             /\ finalizer'.pc = "next"
             /\ Range(finalizer'.cursor) = Range(finalizer.cursor) \ {failed}
             /\ finalizer'.finalized = finalizer.finalized]_vars

\* C27: a stop() that has cancelled the task returns, whatever the task was
\* suspended in; it returns only once the task has ended; and while the task
\* is ended no poll and no meeting changes.
C27_StopReturnsAfterTaskEnded ==
    /\ (stopping = "awaiting") ~> (stopping = "idle" /\ finalizer.pc = "stopped")
    /\ [][(stopping = "awaiting" /\ stopping' = "idle")
             => finalizer.pc = "stopped"]_vars
    /\ [][(finalizer.pc = "stopped" /\ finalizer'.pc = "stopped")
             => (polls' = polls /\ meeting' = meeting)]_vars

\* stop() has returned after cancelling the task between the close of a poll
\* and the update of the meeting.
C27_Witness ==
    /\ stopping = "idle"
    /\ finalizer.pc = "stopped"
    /\ meeting.poll_pending
    /\ \E p \in DOMAIN polls : polls[p].status = "closed"

====
